---- MODULE Spec2Model ----
\* TrackHub: the user, equipment, intervention and location services
\* (services/*.py) modelled over the committed store, with the intervention ->
\* equipment status synchronisation rule, and the HTTP layer in front of the
\* user service (app.py, routes/user.py, routes/web.py).
EXTENDS Integers, FiniteSets, Sequences, TLC

\* ---------------------------------------------------------------- bounds
MaxUsers == 2
MaxEquipment == 1
MaxInterventions == 1
NumRequests == 2
MaxOutcomeId == 3
MaxRuleOutcomeId == 15
MaxLocations == 1

\* ------------------------------------------------------------- constants
\* models.Roles
ADMIN == "admin"
TECHNICIAN == "technician"
\* any role string that is neither of the two Roles constants
OtherRole == "guest"

\* InterventionService business-rule constants
OUTCOME_RESOLVED == 1
OUTCOME_MONITORING == 2
OUTCOME_PENDING == 3
STATUS_WORKING == 1
STATUS_UNDER_REPAIR == 2
\* third row of equipment_status inserted by seed.py ("Obsolete/To Dispose")
STATUS_OBSOLETE == 3

\* ----------------------------------------------------------- input sets
UserIds == 1..MaxUsers
RoleValues == {ADMIN, TECHNICIAN, OtherRole}
Usernames == {"u1", "u2", "u3"}
Names == {"n1", "n2"}
Passwords == {"", "pw"}
\* Python None in an integer column or payload value
NULL == -1
EquipmentIds == 1..MaxEquipment
InterventionIds == 1..MaxInterventions
LocationIds == 1..MaxLocations
\* MaxEquipment + 1 never names a row
EquipmentIdInputs == 1..(MaxEquipment + 1)
\* 0 is falsy and maps to no status
OutcomeInputs == 0..MaxOutcomeId
StatusInputs == {STATUS_WORKING, STATUS_UNDER_REPAIR, STATUS_OBSOLETE}

VARIABLES
    users,          \* table user: user_id -> [username, role, first_name]
    equipment,      \* table equipment: equipment_id -> [status_id]
    interventions,  \* table intervention: intervention_id -> [equipment_id, outcome_id]
    result,         \* the last service call: [op, id, data, ret]
    reqs,           \* concurrent requests in flight (SpecConc only)
    sessions,       \* user ids stored in the clients' login sessions (SpecWeb only)
    locations       \* table location: location_id -> [name] (SpecStore only)

vars == <<users, equipment, interventions, result, reqs, sessions, locations>>

\* ---------------------------------------------------------------- helpers
Max(S) == CHOOSE m \in S : \A x \in S : x <= m

\* SQLite INTEGER PRIMARY KEY without AUTOINCREMENT: max(rowid) + 1
NewId(table) == IF DOMAIN table = {} THEN 1 ELSE Max(DOMAIN table) + 1

Insert(table, id, row) ==
    [i \in DOMAIN table \cup {id} |-> IF i = id THEN row ELSE table[i]]

Delete(table, id) == [i \in DOMAIN table \ {id} |-> table[i]]

Has(data, key) == key \in DOMAIN data

\* dict.get(key, default)
Get(data, key, default) == IF key \in DOMAIN data THEN data[key] ELSE default

\* payload dictionaries: every subset of the optional keys, required keys always
Payloads(required, optional, vals) ==
    UNION { { d \in [required \cup D -> UNION {vals[k] : k \in required \cup D}] :
                \A k \in DOMAIN d : d[k] \in vals[k] } : D \in SUBSET optional }

\* ------------------------------------------------------------ UserService
\* User.query.filter_by(role=Roles.ADMIN).count()
AdminCount(us) == Cardinality({i \in DOMAIN us : us[i].role = ADMIN})

UserFieldVals ==
    [username |-> Usernames, first_name |-> Names, role |-> RoleValues,
     password |-> Passwords]

CreateUserPayloads == Payloads({"username", "first_name"}, {"role", "password"}, UserFieldVals)
UpdateUserPayloads == Payloads({}, {"role", "first_name"}, UserFieldVals)

\* variants of the guards with one condition altered (used to validate the theorems)
LastAdminDemotion_OffByOne(us, id, data) ==
    /\ us[id].role = ADMIN
    /\ Has(data, "role")
    /\ data["role"] # ADMIN
    /\ AdminCount(us) < 1

LastAdminDemotion_AnyRole(us, id, data) ==
    /\ us[id].role = ADMIN
    /\ Has(data, "role")
    /\ AdminCount(us) <= 1

PromotionDenied_OnlyWithAdmins(us, id, data) ==
    /\ us[id].role = TECHNICIAN
    /\ Has(data, "role")
    /\ data["role"] = ADMIN
    /\ AdminCount(us) >= 1

LastAdminDeletion_OffByOne(us, id) ==
    /\ us[id].role = ADMIN
    /\ AdminCount(us) < 1

\* update_user, safety check 1: last admin demotion
LastAdminDemotion(us, id, data) ==
    /\ us[id].role = ADMIN
    /\ Has(data, "role")
    /\ data["role"] # ADMIN
    /\ AdminCount(us) <= 1

\* update_user, strict rule 2: technician promotion denied
PromotionDenied(us, id, data) ==
    /\ us[id].role = TECHNICIAN
    /\ Has(data, "role")
    /\ data["role"] = ADMIN

\* delete_user, safety check: last admin deletion
LastAdminDeletion(us, id) ==
    /\ us[id].role = ADMIN
    /\ AdminCount(us) <= 1

\* what update_user returns or raises, read from the store us
UpdateUserCheck(us, id, data) ==
    IF id \notin DOMAIN us THEN "None"
    ELSE IF LastAdminDemotion(us, id, data) THEN "last_admin"
    ELSE IF PromotionDenied(us, id, data) THEN "promotion_forbidden"
    ELSE "ok"

\* the field assignments of update_user
UpdatedUser(u, data) ==
    [u EXCEPT !.first_name = Get(data, "first_name", @),
              !.role = Get(data, "role", @)]

\* what delete_user returns or raises, read from the store us
DeleteUserCheck(us, id) ==
    IF id \notin DOMAIN us THEN "False"
    ELSE IF LastAdminDeletion(us, id) THEN "last_admin"
    ELSE "ok"

\* create_user without the lookup of the username
CreateUserCheck_NoUsernameCheck(us, data) ==
    IF Get(data, "password", "") = "" THEN "password_required"
    ELSE "ok"

\* create_user without the test of the password
CreateUserCheck_NoPasswordCheck(us, data) ==
    IF \E i \in DOMAIN us : us[i].username = data["username"] THEN "username_taken"
    ELSE "ok"

\* what create_user raises, read from the store us
CreateUserCheck(us, data) ==
    IF \E i \in DOMAIN us : us[i].username = data["username"] THEN "username_taken"
    ELSE IF Get(data, "password", "") = "" THEN "password_required"
    ELSE "ok"

create_user(data) ==
    LET ret == CreateUserCheck(users, data)
        id == NewId(users)
    IN  /\ ret = "ok" => id \in UserIds
        /\ users' = IF ret = "ok"
                    THEN Insert(users, id,
                                [username |-> data["username"],
                                 first_name |-> data["first_name"],
                                 role |-> Get(data, "role", TECHNICIAN)])
                    ELSE users
        /\ result' = [op |-> "create_user", id |-> IF ret = "ok" THEN id ELSE 0,
                      data |-> data, ret |-> ret]
        /\ UNCHANGED <<equipment, interventions, reqs, sessions, locations>>

\* update_user with the profile fields assigned and committed before the two
\* role checks
update_user_FieldsFirst(user_id, data) ==
    LET ret == UpdateUserCheck(users, user_id, data)
    IN  /\ users' = IF ret = "ok"
                    THEN [users EXCEPT ![user_id] = UpdatedUser(@, data)]
                    ELSE IF ret = "None" THEN users
                    ELSE [users EXCEPT ![user_id].first_name = Get(data, "first_name", @)]
        /\ result' = [op |-> "update_user", id |-> user_id, data |-> data, ret |-> ret]
        /\ UNCHANGED <<equipment, interventions, reqs, sessions, locations>>

\* both checks precede every assignment, and the commit is the last statement
update_user(user_id, data) ==
    LET ret == UpdateUserCheck(users, user_id, data)
    IN  /\ users' = IF ret = "ok"
                    THEN [users EXCEPT ![user_id] = UpdatedUser(@, data)]
                    ELSE users
        /\ result' = [op |-> "update_user", id |-> user_id, data |-> data, ret |-> ret]
        /\ UNCHANGED <<equipment, interventions, reqs, sessions, locations>>

delete_user(user_id) ==
    LET ret == DeleteUserCheck(users, user_id)
    IN  /\ users' = IF ret = "ok" THEN Delete(users, user_id) ELSE users
        /\ result' = [op |-> "delete_user", id |-> user_id, data |-> <<>>, ret |-> ret]
        /\ UNCHANGED <<equipment, interventions, reqs, sessions, locations>>

\* ---------------------------------------------------- InterventionService
\* Python truthiness of an int-or-None value
Truthy(v) == v # NULL /\ v # 0

\* Python's int | int on non-negative ints
RECURSIVE BitOr(_, _)
BitOr(a, b) ==
    IF a = 0 THEN b
    ELSE IF b = 0 THEN a
    ELSE (IF a % 2 = 1 \/ b % 2 = 1 THEN 1 ELSE 0) + 2 * BitOr(a \div 2, b \div 2)

\* the elif condition of _update_equipment_status:
\*   outcome_id == OUTCOME_PENDING | outcome_id == Intervention.Service.OUTCOME_MONITORING
\* `|` binds tighter than `==`, so this is the chained comparison
\*   outcome_id == (OUTCOME_PENDING | outcome_id) == Intervention.Service.OUTCOME_MONITORING
\* whose third operand is evaluated only when the first comparison holds, and
\* then raises AttributeError (the model class Intervention has no attribute
\* Service).
PendingOrMonitoring(outcome_id) ==
    IF outcome_id = BitOr(OUTCOME_PENDING, outcome_id) THEN "AttributeError" ELSE "False"

\* the same rule with the two status constants exchanged
UpdateEquipmentStatus_Swapped(eq, equipment_id, outcome_id) ==
    IF equipment_id \notin DOMAIN eq THEN [equipment |-> eq, raised |-> FALSE]
    ELSE IF outcome_id = OUTCOME_RESOLVED
    THEN [equipment |-> [eq EXCEPT ![equipment_id].status_id = STATUS_UNDER_REPAIR],
          raised |-> FALSE]
    ELSE IF PendingOrMonitoring(outcome_id) = "AttributeError"
    THEN [equipment |-> eq, raised |-> TRUE]
    ELSE [equipment |-> eq, raised |-> FALSE]

\* the rule without the guard on a missing equipment: the assignment on the
\* None returned by Equipment.query.get raises
UpdateEquipmentStatus_NoExistenceCheck(eq, equipment_id, outcome_id) ==
    IF equipment_id \notin DOMAIN eq
    THEN [equipment |-> eq, raised |-> outcome_id = OUTCOME_RESOLVED]
    ELSE IF outcome_id = OUTCOME_RESOLVED
    THEN [equipment |-> [eq EXCEPT ![equipment_id].status_id = STATUS_WORKING],
          raised |-> FALSE]
    ELSE IF PendingOrMonitoring(outcome_id) = "AttributeError"
    THEN [equipment |-> eq, raised |-> TRUE]
    ELSE [equipment |-> eq, raised |-> FALSE]

\* the rule with RESOLVED toggling between WORKING and UNDER_REPAIR
UpdateEquipmentStatus_Toggle(eq, equipment_id, outcome_id) ==
    IF equipment_id \notin DOMAIN eq THEN [equipment |-> eq, raised |-> FALSE]
    ELSE IF outcome_id = OUTCOME_RESOLVED
    THEN [equipment |-> [eq EXCEPT ![equipment_id].status_id =
                            IF @ = STATUS_WORKING THEN STATUS_UNDER_REPAIR
                            ELSE STATUS_WORKING],
          raised |-> FALSE]
    ELSE IF PendingOrMonitoring(outcome_id) = "AttributeError"
    THEN [equipment |-> eq, raised |-> TRUE]
    ELSE [equipment |-> eq, raised |-> FALSE]

\* _update_equipment_status: the equipment table after the call and whether
\* the call raised
UpdateEquipmentStatus(eq, equipment_id, outcome_id) ==
    IF equipment_id \notin DOMAIN eq THEN [equipment |-> eq, raised |-> FALSE]
    ELSE IF outcome_id = OUTCOME_RESOLVED
    THEN [equipment |-> [eq EXCEPT ![equipment_id].status_id = STATUS_WORKING],
          raised |-> FALSE]
    ELSE IF PendingOrMonitoring(outcome_id) = "AttributeError"
    THEN [equipment |-> eq, raised |-> TRUE]
    ELSE [equipment |-> eq, raised |-> FALSE]

\* the guarded call of the rule in create_intervention / update_intervention
SyncStatus(eq, equipment_id, outcome_id) ==
    IF Truthy(equipment_id) /\ Truthy(outcome_id)
    THEN UpdateEquipmentStatus(eq, equipment_id, outcome_id)
    ELSE [equipment |-> eq, raised |-> FALSE]

InterventionFieldVals ==
    [equipment_id |-> EquipmentIdInputs, outcome_id |-> OutcomeInputs]

InterventionPayloads == Payloads({}, {"equipment_id", "outcome_id"}, InterventionFieldVals)

\* int(data.get(key)) if data.get(key) else None
IntOrNone(data, key) ==
    LET v == Get(data, key, NULL) IN IF Truthy(v) THEN v ELSE NULL

\* update_intervention with the rule run on the payload's outcome only
OutcomeToCheck_NewOnly(data, stored_outcome_id) ==
    IF Has(data, "outcome_id") THEN data["outcome_id"] ELSE NULL

\* update_intervention: outcome_to_check, evaluated after the assignment of
\* intervention.outcome_id (stored_outcome_id is the value before the call)
OutcomeToCheck(data, stored_outcome_id) ==
    LET new_outcome_id == IF Has(data, "outcome_id") THEN data["outcome_id"] ELSE NULL
        current == IF Has(data, "outcome_id") THEN data["outcome_id"] ELSE stored_outcome_id
    IN  IF Truthy(new_outcome_id) THEN new_outcome_id ELSE current

\* create_intervention committing the new row before it runs the rule
create_intervention_CommitFirst(data) ==
    LET eid == IntOrNone(data, "equipment_id")
        oid == IntOrNone(data, "outcome_id")
        sync == SyncStatus(equipment, eid, oid)
        ret == IF eid = NULL THEN "IntegrityError"
               ELSE IF sync.raised THEN "AttributeError"
               ELSE "ok"
        id == NewId(interventions)
    IN  /\ ret # "IntegrityError" => id \in InterventionIds
        /\ interventions' = IF ret # "IntegrityError"
                            THEN Insert(interventions, id,
                                        [equipment_id |-> eid, outcome_id |-> oid])
                            ELSE interventions
        /\ equipment' = IF ret = "ok" THEN sync.equipment ELSE equipment
        /\ result' = [op |-> "create_intervention", id |-> IF ret = "ok" THEN id ELSE 0,
                      data |-> data, ret |-> ret]
        /\ UNCHANGED <<users, reqs, sessions, locations>>

\* The rule runs before the commit; an exception leaves the request's session
\* uncommitted, so the tables keep their values.  equipment_id is NOT NULL.
create_intervention(data) ==
    LET eid == IntOrNone(data, "equipment_id")
        oid == IntOrNone(data, "outcome_id")
        sync == SyncStatus(equipment, eid, oid)
        ret == IF sync.raised THEN "AttributeError"
               ELSE IF eid = NULL THEN "IntegrityError"
               ELSE "ok"
        id == NewId(interventions)
    IN  /\ ret = "ok" => id \in InterventionIds
        /\ interventions' = IF ret = "ok"
                            THEN Insert(interventions, id,
                                        [equipment_id |-> eid, outcome_id |-> oid])
                            ELSE interventions
        /\ equipment' = IF ret = "ok" THEN sync.equipment ELSE equipment
        /\ result' = [op |-> "create_intervention", id |-> IF ret = "ok" THEN id ELSE 0,
                      data |-> data, ret |-> ret]
        /\ UNCHANGED <<users, reqs, sessions, locations>>

update_intervention(intervention_id, data) ==
    IF intervention_id \notin DOMAIN interventions
    THEN /\ result' = [op |-> "update_intervention", id |-> intervention_id,
                       data |-> data, ret |-> "None"]
         /\ UNCHANGED <<users, equipment, interventions, reqs, sessions, locations>>
    ELSE LET old == interventions[intervention_id]
             eid == Get(data, "equipment_id", old.equipment_id)
             oid == Get(data, "outcome_id", old.outcome_id)
             sync == SyncStatus(equipment, eid, OutcomeToCheck(data, old.outcome_id))
             ret == IF sync.raised THEN "AttributeError" ELSE "ok"
         IN  /\ interventions' = IF ret = "ok"
                                 THEN [interventions EXCEPT ![intervention_id] =
                                          [equipment_id |-> eid, outcome_id |-> oid]]
                                 ELSE interventions
             /\ equipment' = IF ret = "ok" THEN sync.equipment ELSE equipment
             /\ result' = [op |-> "update_intervention", id |-> intervention_id,
                           data |-> data, ret |-> ret]
             /\ UNCHANGED <<users, reqs, sessions, locations>>

\* delete_intervention putting the intervention's equipment back to WORKING
delete_intervention_ResetStatus(intervention_id) ==
    LET found == intervention_id \in DOMAIN interventions
        eid == IF found THEN interventions[intervention_id].equipment_id ELSE NULL
    IN  /\ interventions' = IF found THEN Delete(interventions, intervention_id)
                            ELSE interventions
        /\ equipment' = IF eid \in DOMAIN equipment
                        THEN [equipment EXCEPT ![eid].status_id = STATUS_WORKING]
                        ELSE equipment
        /\ result' = [op |-> "delete_intervention", id |-> intervention_id,
                      data |-> <<>>, ret |-> IF found THEN "ok" ELSE "False"]
        /\ UNCHANGED <<users, reqs, sessions, locations>>

delete_intervention(intervention_id) ==
    LET found == intervention_id \in DOMAIN interventions
    IN  /\ interventions' = IF found THEN Delete(interventions, intervention_id)
                            ELSE interventions
        /\ result' = [op |-> "delete_intervention", id |-> intervention_id,
                      data |-> <<>>, ret |-> IF found THEN "ok" ELSE "False"]
        /\ UNCHANGED <<users, equipment, reqs, sessions, locations>>

\* ------------------------------------------------------- EquipmentService
EquipmentFieldVals == [status_id |-> StatusInputs]

CreateEquipmentPayloads == Payloads({"status_id"}, {}, EquipmentFieldVals)
UpdateEquipmentPayloads == Payloads({}, {"status_id"}, EquipmentFieldVals)

create_equipment(data) ==
    LET id == NewId(equipment)
    IN  /\ id \in EquipmentIds
        /\ equipment' = Insert(equipment, id, [status_id |-> data["status_id"]])
        /\ result' = [op |-> "create_equipment", id |-> id, data |-> data, ret |-> "ok"]
        /\ UNCHANGED <<users, interventions, reqs, sessions, locations>>

\* update_equipment creating the row it does not find
update_equipment_Upsert(equipment_id, data) ==
    LET found == equipment_id \in DOMAIN equipment
    IN  /\ equipment' = IF found
                        THEN [equipment EXCEPT ![equipment_id].status_id =
                                 Get(data, "status_id", @)]
                        ELSE Insert(equipment, equipment_id,
                                    [status_id |-> Get(data, "status_id", STATUS_WORKING)])
        /\ result' = [op |-> "update_equipment", id |-> equipment_id, data |-> data,
                      ret |-> IF found THEN "ok" ELSE "None"]
        /\ UNCHANGED <<users, interventions, reqs, sessions, locations>>

update_equipment(equipment_id, data) ==
    LET found == equipment_id \in DOMAIN equipment
    IN  /\ equipment' = IF found
                        THEN [equipment EXCEPT ![equipment_id].status_id =
                                 Get(data, "status_id", @)]
                        ELSE equipment
        /\ result' = [op |-> "update_equipment", id |-> equipment_id, data |-> data,
                      ret |-> IF found THEN "ok" ELSE "None"]
        /\ UNCHANGED <<users, interventions, reqs, sessions, locations>>

\* delete_equipment without the deletion of the equipment's interventions
delete_equipment_NoCascade(equipment_id) ==
    LET found == equipment_id \in DOMAIN equipment
    IN  /\ equipment' = IF found THEN Delete(equipment, equipment_id) ELSE equipment
        /\ result' = [op |-> "delete_equipment", id |-> equipment_id, data |-> <<>>,
                      ret |-> IF found THEN "ok" ELSE "False"]
        /\ UNCHANGED <<users, interventions, reqs, sessions, locations>>

\* software-level cascade: the interventions of the equipment go first
delete_equipment(equipment_id) ==
    LET found == equipment_id \in DOMAIN equipment
        kept == {i \in DOMAIN interventions : interventions[i].equipment_id # equipment_id}
    IN  /\ equipment' = IF found THEN Delete(equipment, equipment_id) ELSE equipment
        /\ interventions' = IF found THEN [i \in kept |-> interventions[i]]
                            ELSE interventions
        /\ result' = [op |-> "delete_equipment", id |-> equipment_id, data |-> <<>>,
                      ret |-> IF found THEN "ok" ELSE "False"]
        /\ UNCHANGED <<users, reqs, sessions, locations>>

\* ------------------------------------------------------- specifications
\* the store after db.create_all(): every table empty
Init ==
    /\ users = <<>>
    /\ equipment = <<>>
    /\ interventions = <<>>
    /\ result = [op |-> "init", id |-> 0, data |-> <<>>, ret |-> "ok"]
    /\ reqs = <<>>
    /\ sessions = {}
    /\ locations = <<>>

NextUsers ==
    \/ \E data \in CreateUserPayloads : create_user(data)
    \/ \E id \in UserIds, data \in UpdateUserPayloads : update_user(id, data)
    \/ \E id \in UserIds : delete_user(id)

SpecUsers == Init /\ [][NextUsers]_vars

NextMaint ==
    \/ \E data \in CreateEquipmentPayloads : create_equipment(data)
    \/ \E id \in EquipmentIds, data \in UpdateEquipmentPayloads : update_equipment(id, data)
    \/ \E id \in EquipmentIds : delete_equipment(id)
    \/ \E data \in InterventionPayloads : create_intervention(data)
    \/ \E id \in InterventionIds, data \in InterventionPayloads : update_intervention(id, data)
    \/ \E id \in InterventionIds : delete_intervention(id)

SpecMaint == Init /\ [][NextMaint]_vars

\* the status rule on its own: any equipment table, any equipment id and
\* outcome id
EquipmentTables ==
    UNION {[D -> {[status_id |-> s] : s \in StatusInputs}] : D \in SUBSET EquipmentIds}

InitRule ==
    /\ users = <<>>
    /\ equipment \in EquipmentTables
    /\ interventions = <<>>
    /\ result = [op |-> "init", id |-> 0, data |-> <<>>, ret |-> "ok"]
    /\ reqs = <<>>
    /\ sessions = {}
    /\ locations = <<>>

ApplyStatusRule(equipment_id, outcome_id) ==
    LET rule == UpdateEquipmentStatus(equipment, equipment_id, outcome_id)
    IN  /\ equipment' = rule.equipment
        /\ result' = [op |-> "_update_equipment_status", id |-> equipment_id,
                      data |-> [outcome_id |-> outcome_id],
                      ret |-> IF rule.raised THEN "AttributeError" ELSE "ok"]
        /\ UNCHANGED <<users, interventions, reqs, sessions, locations>>

NextRule ==
    \E equipment_id \in EquipmentIdInputs, outcome_id \in 0..MaxRuleOutcomeId :
        ApplyStatusRule(equipment_id, outcome_id)

SpecRule == InitRule /\ [][NextRule]_vars

\* interventions recorded and edited on a given equipment table, with no
\* equipment call in between; the outcomes sent are RESOLVED, MONITORING or
\* PENDING
SyncPayloads ==
    {data \in InterventionPayloads :
        Has(data, "outcome_id") =>
            data["outcome_id"] \in {OUTCOME_RESOLVED, OUTCOME_MONITORING, OUTCOME_PENDING}}

NextSync ==
    \/ \E data \in SyncPayloads : create_intervention(data)
    \/ \E id \in InterventionIds, data \in SyncPayloads : update_intervention(id, data)

SpecSync == InitRule /\ [][NextSync]_vars

\* -------------------------------------------------------- LocationService
\* Of a location the model keeps the name; an equipment row of the model does
\* not carry its location_id, the one equipment column a location call can
\* reach (delete_location lets the ORM empty it).
LocationFieldVals == [name |-> Names]

CreateLocationPayloads == Payloads({"name"}, {}, LocationFieldVals)
UpdateLocationPayloads == Payloads({}, {"name"}, LocationFieldVals)

create_location(data) ==
    LET id == NewId(locations)
    IN  /\ id \in LocationIds
        /\ locations' = Insert(locations, id, [name |-> data["name"]])
        /\ result' = [op |-> "create_location", id |-> id, data |-> data, ret |-> "ok"]
        /\ UNCHANGED <<users, equipment, interventions, reqs, sessions>>

update_location(location_id, data) ==
    LET found == location_id \in DOMAIN locations
    IN  /\ locations' = IF found
                        THEN [locations EXCEPT ![location_id].name = Get(data, "name", @)]
                        ELSE locations
        /\ result' = [op |-> "update_location", id |-> location_id, data |-> data,
                      ret |-> IF found THEN "ok" ELSE "None"]
        /\ UNCHANGED <<users, equipment, interventions, reqs, sessions>>

delete_location(location_id) ==
    LET found == location_id \in DOMAIN locations
    IN  /\ locations' = IF found THEN Delete(locations, location_id) ELSE locations
        /\ result' = [op |-> "delete_location", id |-> location_id, data |-> <<>>,
                      ret |-> IF found THEN "ok" ELSE "False"]
        /\ UNCHANGED <<users, equipment, interventions, reqs, sessions>>

\* ---------------------------------------------------------- all services
\* every mutating call of the four services on one store, each with the few
\* payloads that tell its cases apart: an equipment is created WORKING and
\* edited with or without a status_id, an intervention carries the outcome
\* RESOLVED, a user or a location changes its name
StoreUserCreates ==
    {data \in CreateUserPayloads :
        /\ data["username"] = "u1" /\ data["first_name"] = "n1"
        /\ ~Has(data, "role") /\ Get(data, "password", "") = "pw"}

StoreUserUpdates == {data \in UpdateUserPayloads : data = [first_name |-> "n2"]}

StoreEquipmentCreates ==
    {data \in CreateEquipmentPayloads : data["status_id"] = STATUS_WORKING}

StoreEquipmentUpdates ==
    {data \in UpdateEquipmentPayloads :
        Get(data, "status_id", STATUS_UNDER_REPAIR) = STATUS_UNDER_REPAIR}

StoreInterventionPayloads ==
    {data \in InterventionPayloads :
        Has(data, "equipment_id") /\ Get(data, "outcome_id", NULL) = OUTCOME_RESOLVED}

StoreLocationCreates == {data \in CreateLocationPayloads : data["name"] = "n1"}

StoreLocationUpdates == {data \in UpdateLocationPayloads : data = [name |-> "n2"]}

NextStore ==
    \/ \E data \in StoreUserCreates : create_user(data)
    \/ \E id \in UserIds, data \in StoreUserUpdates : update_user(id, data)
    \/ \E id \in UserIds : delete_user(id)
    \/ \E data \in StoreEquipmentCreates : create_equipment(data)
    \/ \E id \in EquipmentIds, data \in StoreEquipmentUpdates : update_equipment(id, data)
    \/ \E id \in EquipmentIds : delete_equipment(id)
    \/ \E data \in StoreInterventionPayloads : create_intervention(data)
    \/ \E id \in InterventionIds, data \in StoreInterventionPayloads :
          update_intervention(id, data)
    \/ \E id \in InterventionIds : delete_intervention(id)
    \/ \E data \in StoreLocationCreates : create_location(data)
    \/ \E id \in LocationIds, data \in StoreLocationUpdates : update_location(id, data)
    \/ \E id \in LocationIds : delete_location(id)

SpecStore == Init /\ [][NextStore]_vars

\* ---------------------------------------------------- concurrent requests
\* A request handler runs in its own thread with its own session: it reads the
\* target row and the admin count, changes its session-local object, and the
\* change reaches the table when the session commits.  Nothing in
\* update_user / delete_user serialises the read with the commit.
DemoteRequests ==
    {[op |-> "update_user", id |-> i, data |-> [role |-> r], pc |-> "start", ret |-> "pending"] :
        i \in UserIds, r \in RoleValues \ {ADMIN}}

DeleteRequests ==
    {[op |-> "delete_user", id |-> i, data |-> <<>>, pc |-> "start", ret |-> "pending"] :
        i \in UserIds}

\* User.query.get(user_id) and the admin-count query with the checks on them
ReqRead(r) ==
    /\ reqs[r].pc = "start"
    /\ LET ret == IF reqs[r].op = "update_user"
                  THEN UpdateUserCheck(users, reqs[r].id, reqs[r].data)
                  ELSE DeleteUserCheck(users, reqs[r].id)
       IN reqs' = [reqs EXCEPT ![r].pc = IF ret = "ok" THEN "checked" ELSE "done",
                               ![r].ret = IF ret = "ok" THEN "pending" ELSE ret]
    /\ UNCHANGED <<users, equipment, interventions, result, sessions, locations>>

\* user.role = data['role'] / db.session.delete(user): session-local
ReqMutate(r) ==
    /\ reqs[r].pc = "checked"
    /\ reqs' = [reqs EXCEPT ![r].pc = "mutated"]
    /\ UNCHANGED <<users, equipment, interventions, result, sessions, locations>>

\* db.session.commit(): the UPDATE / DELETE of the row by primary key.  An
\* UPDATE that matches no row raises (stale data); a DELETE that matches no
\* row only warns.
ReqCommit(r) ==
    /\ reqs[r].pc = "mutated"
    /\ LET id == reqs[r].id
       IN IF reqs[r].op = "update_user"
          THEN IF id \in DOMAIN users
               THEN /\ users' = [users EXCEPT ![id] = UpdatedUser(@, reqs[r].data)]
                    /\ reqs' = [reqs EXCEPT ![r].pc = "done", ![r].ret = "ok"]
               ELSE /\ users' = users
                    /\ reqs' = [reqs EXCEPT ![r].pc = "done", ![r].ret = "stale_data"]
          ELSE /\ users' = Delete(users, id)
               /\ reqs' = [reqs EXCEPT ![r].pc = "done", ![r].ret = "ok"]
    /\ UNCHANGED <<equipment, interventions, result, sessions, locations>>

\* a 2-administrator system and NumRequests demote / delete requests
InitConc ==
    /\ users = [i \in 1..2 |-> [username |-> IF i = 1 THEN "u1" ELSE "u2",
                                 first_name |-> "n1", role |-> ADMIN]]
    /\ equipment = <<>>
    /\ interventions = <<>>
    /\ result = [op |-> "init", id |-> 0, data |-> <<>>, ret |-> "ok"]
    /\ reqs \in [1..NumRequests -> {q \in DemoteRequests \cup DeleteRequests : q.id \in 1..2}]
    /\ sessions = {}
    /\ locations = <<>>

NextConc ==
    \/ \E r \in DOMAIN reqs : ReqRead(r)
    \/ \E r \in DOMAIN reqs : ReqMutate(r)
    \/ \E r \in DOMAIN reqs : ReqCommit(r)

SpecConc == InitConc /\ [][NextConc]_vars

\* ----------------------------------------------------------- HTTP layer
\* endpoints of the application's url map (one page and one API handler stand
\* for the handlers that carry no decorator and no role check), the built-in
\* static endpoint, and request.endpoint of a request that matches no route
NoEndpoint == "None"

StaticEndpoints == {"static"}

ViewFunctions ==
    StaticEndpoints \cup
    {"web.dashboard", "web.view_equipment", "web.view_login_form",
     "web.view_users", "web.view_users_details", "web.view_new_user", "web.view_edit_user",
     "user.login_api", "user.logout_api", "user.get_current_user_status",
     "user.create_user", "user.list_items", "user.manage_single_resource"}

\* the view functions decorated with @public_route
PublicEndpoints == {"web.view_login_form", "user.login_api", "user.logout_api"}

\* the view functions decorated with @login_required
LoginRequiredEndpoints ==
    {"web.dashboard", "web.view_new_user", "web.view_edit_user",
     "user.logout_api", "user.list_items", "user.manage_single_resource"}

\* load_user: the user the session's id names, None when it names no row
LoadUser(sid) == IF sid \in DOMAIN users THEN sid ELSE NULL

\* a handler's outcome: status, the tables and sessions it leaves, the
\* UserService method it called and the JSON body where a claim reads it
Response(ret, us, ss, service, body) ==
    [ret |-> ret, users |-> us, sessions |-> ss, service |-> service, body |-> body]

Plain(ret) == Response(ret, users, sessions, "none", <<>>)

\* global_security_check letting every matched endpoint through
GlobalSecurityCheck_AuthOnly(endpoint, cur) ==
    IF endpoint # NoEndpoint /\ endpoint \in StaticEndpoints THEN "pass"
    ELSE IF endpoint \in ViewFunctions THEN "pass"
    ELSE IF cur = NULL THEN "unauthorized"
    ELSE "pass"

\* global_security_check (before_request): "pass" when it returns None
GlobalSecurityCheck(endpoint, cur) ==
    IF endpoint # NoEndpoint /\ endpoint \in StaticEndpoints THEN "pass"
    ELSE IF endpoint \in ViewFunctions /\ endpoint \in PublicEndpoints THEN "pass"
    ELSE IF cur = NULL THEN "unauthorized"
    ELSE "pass"

\* the role test with the seeded administrator's role taken as it was when the
\* store was seeded, not as it is stored now
NotAdmin_RoleAtSeed(cur) ==
    IF cur = NULL THEN "AttributeError"
    ELSE IF cur = 1 /\ users[cur].username = "u1" THEN "False"
    ELSE IF users[cur].role # ADMIN THEN "True"
    ELSE "False"

\* current_user.role != Roles.ADMIN; the anonymous user has no attribute role
NotAdmin(cur) ==
    IF cur = NULL THEN "AttributeError"
    ELSE IF users[cur].role # ADMIN THEN "True"
    ELSE "False"

\* a page or API handler with a role check that aborts with 403
AdminOnly(cur, service) ==
    IF NotAdmin(cur) = "AttributeError" THEN Plain("500")
    ELSE IF NotAdmin(cur) = "True" THEN Plain("403")
    ELSE Response("200", users, sessions, service, <<>>)

web_view_users(cur) == AdminOnly(cur, "none")

web_view_users_details(cur) == AdminOnly(cur, "none")

web_view_new_user(cur) == AdminOnly(cur, "none")

\* the body of the role test is the expression Roles.ADMIN, not abort(403)
web_view_edit_user(cur) ==
    IF NotAdmin(cur) = "AttributeError" THEN Plain("500") ELSE Plain("200")

user_list_items(cur) == AdminOnly(cur, "get_all_users")

\* every stored password is the one non-empty password of Passwords
user_login_api(data) ==
    LET username == Get(data, "username", "")
        password == Get(data, "password", "")
        found == {i \in DOMAIN users : users[i].username = username}
    IN  IF data = <<>> THEN Plain("400")
        ELSE IF username = "" \/ password = "" \/ found = {} \/ password # "pw"
        THEN Response("401", users, sessions, "login", <<>>)
        ELSE Response("200", users, sessions \cup found, "login", <<>>)

user_logout_api(sid) == Response("200", users, sessions \ {sid}, "logout", <<>>)

user_get_current_user_status(cur) ==
    IF cur # NULL
    THEN Response("200", users, sessions, "none",
                  [authenticated |-> TRUE, user_id |-> cur, role |-> users[cur].role])
    ELSE Response("200", users, sessions, "none", [authenticated |-> FALSE])

user_create_user(cur, data) ==
    IF NotAdmin(cur) = "AttributeError" THEN Plain("500")
    ELSE IF NotAdmin(cur) = "True" THEN Plain("403")
    ELSE IF data = <<>> THEN Plain("400")
    ELSE IF CreateUserCheck(users, data) # "ok"
    THEN Response("400", users, sessions, "create_user", <<>>)
    ELSE Response("201",
                  Insert(users, NewId(users),
                         [username |-> data["username"],
                          first_name |-> data["first_name"],
                          role |-> Get(data, "role", TECHNICIAN)]),
                  sessions, "create_user", <<>>)

\* manage_single_resource looking the target up before the ownership test
user_manage_single_resource_LookupFirst(cur, method, id, data) ==
    IF method \in {"PUT", "DELETE"} /\ NotAdmin(cur) = "AttributeError" THEN Plain("500")
    ELSE IF id \notin DOMAIN users
    THEN Response("404", users, sessions, "get_user_by_id", <<>>)
    ELSE IF method \in {"PUT", "DELETE"} /\ NotAdmin(cur) = "True" /\ cur # id
    THEN Plain("403")
    ELSE IF method = "GET"
    THEN Response("200", users, sessions, "get_user_by_id", <<>>)
    ELSE IF method = "PUT"
    THEN IF data = <<>> THEN Plain("400")
         ELSE LET ret == UpdateUserCheck(users, id, data)
              IN  IF ret # "ok"
                  THEN Response("400", users, sessions, "update_user", <<>>)
                  ELSE Response("200", [users EXCEPT ![id] = UpdatedUser(@, data)],
                                sessions, "update_user", <<>>)
    ELSE LET ret == DeleteUserCheck(users, id)
         IN  IF ret # "ok" THEN Response("400", users, sessions, "delete_user", <<>>)
             ELSE Response("200", Delete(users, id), sessions, "delete_user", <<>>)

\* manage_single_resource with the ownership test on DELETE only
user_manage_single_resource_DeleteOnly(cur, method, id, data) ==
    IF method \in {"PUT", "DELETE"} /\ NotAdmin(cur) = "AttributeError" THEN Plain("500")
    ELSE IF method = "DELETE" /\ NotAdmin(cur) = "True" /\ cur # id
    THEN Plain("403")
    ELSE IF method = "GET"
    THEN Response(IF id \in DOMAIN users THEN "200" ELSE "404",
                  users, sessions, "get_user_by_id", <<>>)
    ELSE IF method = "PUT"
    THEN IF data = <<>> THEN Plain("400")
         ELSE LET ret == UpdateUserCheck(users, id, data)
              IN  IF ret = "None" THEN Response("404", users, sessions, "update_user", <<>>)
                  ELSE IF ret # "ok"
                  THEN Response("400", users, sessions, "update_user", <<>>)
                  ELSE Response("200", [users EXCEPT ![id] = UpdatedUser(@, data)],
                                sessions, "update_user", <<>>)
    ELSE LET ret == DeleteUserCheck(users, id)
         IN  IF ret = "False" THEN Response("404", users, sessions, "delete_user", <<>>)
             ELSE IF ret # "ok" THEN Response("400", users, sessions, "delete_user", <<>>)
             ELSE Response("200", Delete(users, id), sessions, "delete_user", <<>>)

\* str(current_user.user_id) != str(id) compares the decimal forms of two
\* integers, which differ exactly when the integers do
user_manage_single_resource(cur, method, id, data) ==
    IF method \in {"PUT", "DELETE"} /\ NotAdmin(cur) = "AttributeError" THEN Plain("500")
    ELSE IF method \in {"PUT", "DELETE"} /\ NotAdmin(cur) = "True" /\ cur # id
    THEN Plain("403")
    ELSE IF method = "GET"
    THEN Response(IF id \in DOMAIN users THEN "200" ELSE "404",
                  users, sessions, "get_user_by_id", <<>>)
    ELSE IF method = "PUT"
    THEN IF data = <<>> THEN Plain("400")
         ELSE LET ret == UpdateUserCheck(users, id, data)
              IN  IF ret = "None" THEN Response("404", users, sessions, "update_user", <<>>)
                  ELSE IF ret # "ok"
                  THEN Response("400", users, sessions, "update_user", <<>>)
                  ELSE Response("200", [users EXCEPT ![id] = UpdatedUser(@, data)],
                                sessions, "update_user", <<>>)
    ELSE LET ret == DeleteUserCheck(users, id)
         IN  IF ret = "False" THEN Response("404", users, sessions, "delete_user", <<>>)
             ELSE IF ret # "ok" THEN Response("400", users, sessions, "delete_user", <<>>)
             ELSE Response("200", Delete(users, id), sessions, "delete_user", <<>>)

\* the view function of the endpoint, behind its @login_required if it has one
Dispatch(req, sid, cur) ==
    LET e == req.endpoint
    IN  IF e = NoEndpoint THEN Plain("404")
        ELSE IF e \in LoginRequiredEndpoints /\ cur = NULL THEN Plain("unauthorized")
        ELSE IF e = "user.login_api" THEN user_login_api(req.data)
        ELSE IF e = "user.logout_api" THEN user_logout_api(sid)
        ELSE IF e = "user.get_current_user_status" THEN user_get_current_user_status(cur)
        ELSE IF e = "user.create_user" THEN user_create_user(cur, req.data)
        ELSE IF e = "user.list_items" THEN user_list_items(cur)
        ELSE IF e = "user.manage_single_resource"
        THEN user_manage_single_resource(cur, req.method, req.id, req.data)
        ELSE IF e = "web.view_users" THEN web_view_users(cur)
        ELSE IF e = "web.view_users_details" THEN web_view_users_details(cur)
        ELSE IF e = "web.view_new_user" THEN web_view_new_user(cur)
        ELSE IF e = "web.view_edit_user" THEN web_view_edit_user(cur)
        ELSE Plain("200")

\* whether Dispatch entered the body of a view function
ViewRan(req, cur) ==
    /\ req.endpoint # NoEndpoint
    /\ ~(req.endpoint \in LoginRequiredEndpoints /\ cur = NULL)

\* ids a url can carry: MaxUsers + 1 never names a row
UserIdInputs == 1..(MaxUsers + 1)

\* requests: endpoint, method, the <int:id> of the url and the JSON payload
Req(endpoint, method, id, data) ==
    [endpoint |-> endpoint, method |-> method, id |-> id, data |-> data]

\* one wrong password besides the stored one
LoginPayloads ==
    {data \in Payloads({"username", "password"}, {}, UserFieldVals) :
        data["password"] = "pw" \/ data["username"] = "u1"}

\* a new user is always asked for under the one username the seed left free;
\* an absent role stands for the role technician it defaults to, and the
\* payloads without a role also come with a missing and with an empty password
WebCreatePayloads ==
    {data \in CreateUserPayloads :
        /\ data["username"] = "u3"
        /\ data["first_name"] = "n1"
        /\ Get(data, "role", ADMIN) # TECHNICIAN
        /\ Get(data, "password", "") = "pw" \/ ~Has(data, "role")}

WebUpdatePayloads == {<<>>} \cup {data \in UpdateUserPayloads : DOMAIN data = {"role"}}

WebRequests ==
    {Req(e, "GET", 0, <<>>) :
        e \in {NoEndpoint, "static", "web.dashboard", "web.view_equipment",
               "web.view_login_form", "web.view_users", "web.view_users_details",
               "web.view_new_user", "web.view_edit_user",
               "user.get_current_user_status", "user.list_items"}}
    \cup {Req("user.manage_single_resource", "GET", id, <<>>) : id \in UserIdInputs}
    \cup {Req("user.login_api", "POST", 0, data) : data \in LoginPayloads}
    \cup {Req("user.logout_api", "POST", 0, <<>>)}
    \cup {Req("user.create_user", "POST", 0, data) : data \in WebCreatePayloads}
    \cup {Req("user.manage_single_resource", "PUT", id, data) :
            id \in UserIdInputs, data \in WebUpdatePayloads}
    \cup {Req("user.manage_single_resource", "DELETE", id, <<>>) : id \in UserIdInputs}

\* one request of a client whose session stores sid (NULL: no session): the
\* before_request gate, then the dispatch to the view function
Request(sid, req) ==
    LET cur == LoadUser(sid)
        gate == GlobalSecurityCheck(req.endpoint, cur)
        out == IF gate = "unauthorized" THEN Plain("unauthorized")
               ELSE Dispatch(req, sid, cur)
    IN  /\ DOMAIN out.users \subseteq UserIds
        /\ users' = out.users
        /\ sessions' = out.sessions
        /\ result' = [op |-> "request", endpoint |-> req.endpoint, method |-> req.method,
                      id |-> req.id, data |-> req.data, sid |-> sid,
                      gate |-> gate, ran |-> gate = "pass" /\ ViewRan(req, cur),
                      ret |-> out.ret, service |-> out.service, body |-> out.body]
        /\ UNCHANGED <<equipment, interventions, reqs, locations>>

\* the store after seed.py: one administrator and one technician
InitWeb ==
    /\ users = [i \in 1..2 |-> [username |-> IF i = 1 THEN "u1" ELSE "u2",
                                 first_name |-> "n1",
                                 role |-> IF i = 1 THEN ADMIN ELSE TECHNICIAN]]
    /\ equipment = <<>>
    /\ interventions = <<>>
    /\ result = [op |-> "init", id |-> 0, data |-> <<>>, ret |-> "ok"]
    /\ reqs = <<>>
    /\ sessions = {}
    /\ locations = <<>>

NextWeb == \E sid \in sessions \cup {NULL}, req \in WebRequests : Request(sid, req)

SpecWeb == InitWeb /\ [][NextWeb]_vars

\* ------------------------------------------------------------- properties
\* C1: once the store holds an administrator, no create_user, update_user or
\* delete_user call (successful or rejected) leaves it with none.
C1_LastAdminInvariant == [][AdminCount(users) >= 1 => AdminCount(users') >= 1]_vars

\* C1 witness: the only administrator was the target of a rejected deletion
C1_Witness ==
    /\ result.op = "delete_user"
    /\ result.ret = "last_admin"
    /\ AdminCount(users) = 1

\* C2: of N concurrent demote / delete requests against a 2-administrator
\* system exactly one succeeds, the other N-1 are rejected with the
\* last-administrator error, the final admin count is 1, and no interleaving
\* reaches a state with zero administrators.  (Stated for requests that
\* target different administrators, the case in which serial execution gives
\* that result.)
C2_ConcurrentDemoteDelete ==
    (reqs # <<>> /\ \A r, q \in DOMAIN reqs : reqs[r].id = reqs[q].id => r = q) =>
        /\ AdminCount(users) >= 1
        /\ (\A r \in DOMAIN reqs : reqs[r].pc = "done") =>
              /\ Cardinality({r \in DOMAIN reqs : reqs[r].ret = "ok"}) = 1
              /\ Cardinality({r \in DOMAIN reqs : reqs[r].ret = "last_admin"}) = NumRequests - 1
              /\ AdminCount(users) = 1

\* C5: update_user raises the last-administrator error exactly when the target
\* is an admin, the requested role is not admin and the admin count read before
\* the change is <= 1; admin->admin and technician->technician are never
\* blocked; after a rejected demotion the target is still an admin.
C5_DemotionGuard ==
    [][(result'.op = "update_user" /\ result'.id \in DOMAIN users) =>
        LET id == result'.id
            d == result'.data
            cur == users[id].role
        IN  /\ (result'.ret = "last_admin") <=>
                 (cur = ADMIN /\ Has(d, "role") /\ d["role"] # ADMIN /\ AdminCount(users) <= 1)
            /\ (cur \in {ADMIN, TECHNICIAN} /\ Has(d, "role") /\ d["role"] = cur) =>
                 result'.ret = "ok"
            /\ result'.ret = "last_admin" =>
                 (id \in DOMAIN users' /\ users'[id].role = ADMIN)]_vars

\* C5 witness: the demotion of the only administrator was rejected
C5_Witness ==
    /\ result.op = "update_user"
    /\ result.ret = "last_admin"
    /\ result.id \in DOMAIN users
    /\ users[result.id].role = ADMIN
    /\ \E i \in DOMAIN users : users[i].role = TECHNICIAN

\* C6: update_user of a technician with requested role admin always raises the
\* promotion-forbidden error, whatever the admin count, and the role stays
\* technician.
C6_PromotionForbidden ==
    [][(/\ result'.op = "update_user"
        /\ result'.id \in DOMAIN users
        /\ users[result'.id].role = TECHNICIAN
        /\ Has(result'.data, "role")
        /\ result'.data["role"] = ADMIN) =>
         /\ result'.ret = "promotion_forbidden"
         /\ users' = users]_vars

\* C6 witness: a promotion was refused in a store without any administrator
C6_Witness ==
    /\ result.op = "update_user"
    /\ result.ret = "promotion_forbidden"
    /\ users[result.id].role = TECHNICIAN
    /\ AdminCount(users) = 0

\* C7: delete_user of an existing target raises the last-administrator error
\* and keeps the user when the target is an admin and the admin count is <= 1;
\* in every other case the user is removed.
C7_DeletionGuard ==
    [][(result'.op = "delete_user" /\ result'.id \in DOMAIN users) =>
        LET id == result'.id
        IN  IF users[id].role = ADMIN /\ AdminCount(users) <= 1
            THEN result'.ret = "last_admin" /\ users' = users
            ELSE result'.ret = "ok" /\ users' = Delete(users, id)]_vars

\* C7 witness: with one admin and one technician left, the technician's
\* deletion succeeded
C7_Witness ==
    /\ result.op = "delete_user"
    /\ result.ret = "ok"
    /\ result.id \notin DOMAIN users
    /\ AdminCount(users) = 1
    /\ Cardinality(DOMAIN users) = 1

\* C3: the status rule with outcome RESOLVED on an existing equipment, whatever
\* its prior status, completes and leaves the equipment WORKING.
C3_ResolvedSetsWorking ==
    [][(/\ result'.op = "_update_equipment_status"
        /\ result'.id \in DOMAIN equipment
        /\ result'.data["outcome_id"] = OUTCOME_RESOLVED) =>
         /\ result'.ret = "ok"
         /\ equipment'[result'.id].status_id = STATUS_WORKING]_vars

\* C3 witness: RESOLVED was applied to an equipment and it is WORKING
C3_Witness ==
    /\ result.op = "_update_equipment_status"
    /\ result.data["outcome_id"] = OUTCOME_RESOLVED
    /\ result.id \in DOMAIN equipment
    /\ equipment[result.id].status_id = STATUS_WORKING
    /\ result.ret = "ok"

\* C4: the status rule with outcome PENDING or MONITORING on an existing
\* equipment, whatever its prior status, completes normally and leaves the
\* equipment UNDER_REPAIR.
C4_PendingMonitoringSetsUnderRepair ==
    [][(/\ result'.op = "_update_equipment_status"
        /\ result'.id \in DOMAIN equipment
        /\ result'.data["outcome_id"] \in {OUTCOME_PENDING, OUTCOME_MONITORING}) =>
         /\ result'.ret = "ok"
         /\ equipment'[result'.id].status_id = STATUS_UNDER_REPAIR]_vars

\* C8: update_intervention with a payload that changes equipment_id and has no
\* outcome_id applies the rule to the new target equipment with the stored
\* outcome: stored PENDING leaves the target UNDER_REPAIR, stored RESOLVED
\* leaves it WORKING.
C8_EquipmentChangeUsesStoredOutcome ==
    [][(/\ result'.op = "update_intervention"
        /\ result'.id \in DOMAIN interventions
        /\ Has(result'.data, "equipment_id")
        /\ ~Has(result'.data, "outcome_id")
        /\ result'.data["equipment_id"] # interventions[result'.id].equipment_id
        /\ result'.data["equipment_id"] \in DOMAIN equipment) =>
         LET target == result'.data["equipment_id"]
             stored == interventions[result'.id].outcome_id
         IN  /\ stored = OUTCOME_PENDING =>
                  equipment'[target].status_id = STATUS_UNDER_REPAIR
             /\ stored = OUTCOME_RESOLVED =>
                  equipment'[target].status_id = STATUS_WORKING]_vars

\* C9: a create_intervention or update_intervention call that completes has
\* applied the status rule to the resulting intervention's equipment when its
\* equipment id and outcome id are both non-null, and has changed no equipment
\* otherwise; creating an intervention with outcome RESOLVED on an existing
\* equipment completes and leaves that equipment WORKING.
C9_RuleRunsOnCreateAndUpdate ==
    [][(result'.op \in {"create_intervention", "update_intervention"}) =>
        /\ result'.ret = "ok" =>
             LET iv == interventions'[result'.id]
                 rule == UpdateEquipmentStatus(equipment, iv.equipment_id, iv.outcome_id)
             IN  IF iv.equipment_id # NULL /\ iv.outcome_id # NULL
                 THEN ~rule.raised /\ equipment' = rule.equipment
                 ELSE equipment' = equipment
        /\ (/\ result'.op = "create_intervention"
            /\ Get(result'.data, "equipment_id", NULL) \in DOMAIN equipment
            /\ Get(result'.data, "outcome_id", NULL) = OUTCOME_RESOLVED) =>
              /\ result'.ret = "ok"
              /\ equipment'[result'.data["equipment_id"]].status_id = STATUS_WORKING]_vars

\* C9 witness: an update that carried only a new equipment_id completed on an
\* intervention whose stored outcome is RESOLVED, and the target is WORKING
C9_Witness ==
    /\ result.op = "update_intervention"
    /\ result.ret = "ok"
    /\ Has(result.data, "equipment_id")
    /\ ~Has(result.data, "outcome_id")
    /\ interventions[result.id].outcome_id = OUTCOME_RESOLVED
    /\ interventions[result.id].equipment_id \in DOMAIN equipment
    /\ equipment[interventions[result.id].equipment_id].status_id = STATUS_WORKING

\* C10: the status rule with an outcome id outside {RESOLVED, MONITORING,
\* PENDING} completes without error and leaves the equipment's status_id
\* unchanged.
C10_UnmappedOutcomeIsNoOp ==
    [][(/\ result'.op = "_update_equipment_status"
        /\ result'.id \in DOMAIN equipment
        /\ result'.data["outcome_id"] \notin
              {OUTCOME_RESOLVED, OUTCOME_MONITORING, OUTCOME_PENDING}) =>
         /\ result'.ret = "ok"
         /\ equipment' = equipment]_vars

\* C11: the status rule with an equipment id that resolves to no record is a
\* silent no-op for every outcome id: it does not raise and every existing
\* equipment keeps its status.
C11_MissingEquipmentIsNoOp ==
    [][(/\ result'.op = "_update_equipment_status"
        /\ result'.id \notin DOMAIN equipment) =>
         /\ result'.ret = "ok"
         /\ equipment' = equipment]_vars

\* C11 witness: the rule was applied with RESOLVED to an id that is not in a
\* non-empty equipment table
C11_Witness ==
    /\ result.op = "_update_equipment_status"
    /\ result.id \notin DOMAIN equipment
    /\ result.data["outcome_id"] = OUTCOME_RESOLVED
    /\ result.ret = "ok"
    /\ DOMAIN equipment # {}

\* C12: the status rule is idempotent: applying the outcome that was just
\* applied once more to the same equipment id leaves the equipment table as it
\* is and ends the same way (raises again, or completes again).
C12_RuleIdempotent ==
    result.op = "_update_equipment_status" =>
        UpdateEquipmentStatus(equipment, result.id, result.data["outcome_id"]) =
            [equipment |-> equipment, raised |-> (result.ret = "AttributeError")]

\* C12 witness: RESOLVED was applied to an existing equipment, and applying it
\* again gives the table back
C12_Witness ==
    /\ result.op = "_update_equipment_status"
    /\ result.data["outcome_id"] = OUTCOME_RESOLVED
    /\ result.id \in DOMAIN equipment
    /\ result.ret = "ok"
    /\ UpdateEquipmentStatus(equipment, result.id, OUTCOME_RESOLVED).equipment = equipment

\* C13: with interventions created and updated with outcomes RESOLVED,
\* MONITORING or PENDING and no equipment call in between, every equipment
\* that has an intervention has the status mapped from the outcome of its most
\* recently created intervention: WORKING for RESOLVED, UNDER_REPAIR for
\* MONITORING and PENDING.
C13_StatusFollowsLatestOutcome ==
    \A e \in DOMAIN equipment :
        LET mine == {i \in DOMAIN interventions : interventions[i].equipment_id = e}
        IN  mine # {} =>
              LET outcome_id == interventions[Max(mine)].outcome_id
              IN  /\ outcome_id = OUTCOME_RESOLVED =>
                       equipment[e].status_id = STATUS_WORKING
                  /\ outcome_id \in {OUTCOME_MONITORING, OUTCOME_PENDING} =>
                       equipment[e].status_id = STATUS_UNDER_REPAIR

\* C14: delete_equipment on an existing equipment, whatever the number of its
\* interventions, returns True, removes the equipment, leaves no intervention
\* whose equipment_id is the deleted id, and leaves the interventions of other
\* equipment (and the other equipment) as they were.
C14_DeleteEquipmentCascades ==
    [][(/\ result'.op = "delete_equipment"
        /\ result'.id \in DOMAIN equipment) =>
         /\ result'.ret = "ok"
         /\ DOMAIN equipment' = DOMAIN equipment \ {result'.id}
         /\ \A e \in DOMAIN equipment' : equipment'[e] = equipment[e]
         /\ \A i \in DOMAIN interventions' :
               interventions'[i].equipment_id # result'.id
         /\ \A i \in DOMAIN interventions :
               interventions[i].equipment_id # result'.id =>
                   /\ i \in DOMAIN interventions'
                   /\ interventions'[i] = interventions[i]]_vars

\* C14 witness: an equipment was deleted and an intervention recorded with
\* another equipment id is still stored
C14_Witness ==
    /\ result.op = "delete_equipment"
    /\ result.ret = "ok"
    /\ result.id \notin DOMAIN equipment
    /\ \E i \in DOMAIN interventions : interventions[i].equipment_id # result.id

\* C15: every stored intervention has a non-null equipment_id that is the id
\* of a stored equipment.
C15_InterventionsReferenceEquipment ==
    \A i \in DOMAIN interventions :
        /\ interventions[i].equipment_id # NULL
        /\ interventions[i].equipment_id \in DOMAIN equipment

\* C16: an update_user call rejected with the last-administrator or the
\* promotion-forbidden error applies nothing of its payload: the target keeps
\* its role and its other fields, and all other users are unchanged.
C16_RejectedUpdateAppliesNothing ==
    [][(/\ result'.op = "update_user"
        /\ result'.ret \in {"last_admin", "promotion_forbidden"}) =>
         users' = users]_vars

\* C16 witness: a rejected update whose payload also carried a first_name
\* other than the stored one
C16_Witness ==
    /\ result.op = "update_user"
    /\ result.ret \in {"last_admin", "promotion_forbidden"}
    /\ Has(result.data, "first_name")
    /\ result.id \in DOMAIN users
    /\ users[result.id].first_name # result.data["first_name"]

\* C17: the global gate lets a request through only if its endpoint is the
\* static one, its view function is marked public, or the requester is
\* authenticated; every other request, one that matches no route included, gets
\* the unauthorized response, runs no view function and changes nothing.
C17_GlobalGate ==
    [][result'.op = "request" =>
        LET allowed == \/ result'.endpoint \in StaticEndpoints
                       \/ result'.endpoint \in PublicEndpoints
                       \/ LoadUser(result'.sid) # NULL
        IN  /\ result'.gate = "pass" => allowed
            /\ ~allowed =>
                 /\ result'.gate = "unauthorized"
                 /\ result'.ret = "unauthorized"
                 /\ ~result'.ran
                 /\ users' = users
                 /\ sessions' = sessions]_vars

\* C17 witness: a request that matches no route, sent with the session of a
\* user who was deleted, got the unauthorized response
C17_Witness ==
    /\ result.op = "request"
    /\ result.endpoint = NoEndpoint
    /\ result.sid # NULL
    /\ result.sid \notin DOMAIN users
    /\ result.ret = "unauthorized"
    /\ ~result.ran

\* C18: GET /api/users/me is public: every requester passes the gate and gets
\* a 200 whose authenticated field tells whether the requester is logged in
\* (false for an unauthenticated requester, true with the profile otherwise).
C18_WhoAmIIsPublic ==
    [][(/\ result'.op = "request"
        /\ result'.endpoint = "user.get_current_user_status") =>
         /\ result'.gate = "pass"
         /\ result'.ret = "200"
         /\ result'.body["authenticated"] = (LoadUser(result'.sid) # NULL)
         /\ LoadUser(result'.sid) # NULL =>
              /\ result'.body["user_id"] = result'.sid
              /\ result'.body["role"] = users[result'.sid].role]_vars

\* C19: every route of the administrator-only user-management surface answers
\* an authenticated requester whose role is not admin with 403 and changes
\* nothing in the store.
C19_AdminSurfaceForbidden ==
    [][(/\ result'.op = "request"
        /\ result'.endpoint \in
              {"web.view_users", "web.view_users_details", "web.view_new_user",
               "web.view_edit_user", "user.create_user", "user.list_items"}
        /\ LoadUser(result'.sid) # NULL
        /\ users[result'.sid].role # ADMIN) =>
         /\ result'.ret = "403"
         /\ users' = users]_vars

\* C20: on /api/users/items/<id>, a requester of any role reads (GET) and
\* edits (PUT) the profile with their own id; a PUT or DELETE by a
\* non-administrator on another id is answered 403, calls no UserService
\* method and leaves the users as they were; a PUT or DELETE on another id
\* that reaches UserService comes from an administrator.
C20_UserResourceAccess ==
    [][(/\ result'.op = "request"
        /\ result'.endpoint = "user.manage_single_resource"
        /\ LoadUser(result'.sid) # NULL) =>
         LET own == result'.id = result'.sid
             admin == users[result'.sid].role = ADMIN
             write == result'.method \in {"PUT", "DELETE"}
         IN  /\ (own /\ result'.method = "GET") =>
                  result'.ret = "200" /\ result'.service = "get_user_by_id"
             /\ (own /\ result'.method = "PUT") =>
                  /\ result'.ret \notin {"403", "unauthorized"}
                  /\ result'.data # <<>> => result'.service = "update_user"
             /\ (write /\ ~own /\ ~admin) =>
                  /\ result'.ret = "403"
                  /\ result'.service = "none"
                  /\ users' = users
             /\ (write /\ ~own /\ result'.service # "none") => admin]_vars

\* C20 witness: a logged-in user who is not an administrator sent a PUT with a
\* role for another existing user, who is still an administrator, and got 403
C20_Witness ==
    /\ result.op = "request"
    /\ result.endpoint = "user.manage_single_resource"
    /\ result.method = "PUT"
    /\ result.ret = "403"
    /\ result.sid \in DOMAIN users
    /\ users[result.sid].role # ADMIN
    /\ result.id \in DOMAIN users
    /\ result.id # result.sid
    /\ Has(result.data, "role")
    /\ result.data["role"] # users[result.id].role

\* C21: no update_user call makes an administrator: a user whose role is not
\* admin before the call, whatever the role string, is not an administrator
\* after it.
C21_UpdateNeverMakesAdmin ==
    [][result'.op = "update_user" =>
        \A i \in DOMAIN users \cap DOMAIN users' :
            users[i].role # ADMIN => users'[i].role # ADMIN]_vars

\* C22: every stored user's role is admin or technician.
C22_RoleIsAdminOrTechnician ==
    \A i \in DOMAIN users : users[i].role \in {ADMIN, TECHNICIAN}

\* C23: no two stored users share a username: create_user with a username that
\* is in the store is rejected and adds no user, and no call changes the
\* username of a stored user.
C23_UsernameUnique ==
    [][/\ \A i, j \in DOMAIN users' :
             users'[i].username = users'[j].username => i = j
       /\ (/\ result'.op = "create_user"
           /\ \E i \in DOMAIN users : users[i].username = result'.data["username"]) =>
             /\ result'.ret = "username_taken"
             /\ users' = users
       /\ \A i \in DOMAIN users \cap DOMAIN users' :
             users'[i].username = users[i].username]_vars

\* C23 witness: with two users stored, a create_user carrying a password and
\* the username of one of them was rejected
C23_Witness ==
    /\ result.op = "create_user"
    /\ result.ret = "username_taken"
    /\ Get(result.data, "password", "") # ""
    /\ Cardinality(DOMAIN users) >= 2
    /\ \E i \in DOMAIN users : users[i].username = result.data["username"]

\* C24: an administrator's POST /api/users/create whose payload has no
\* password, or an empty one, reaches create_user, which rejects it; the route
\* answers 400 and the stored users are unchanged.
C24_PasswordRequired ==
    [][(/\ result'.op = "request"
        /\ result'.endpoint = "user.create_user"
        /\ NotAdmin(LoadUser(result'.sid)) = "False"
        /\ result'.data # <<>>
        /\ Get(result'.data, "password", "") = "") =>
         /\ result'.service = "create_user"
         /\ result'.ret = "400"
         /\ users' = users]_vars

\* C24 witness: a creation without a password, for a username that is free and
\* with a free row, was answered 400
C24_Witness ==
    /\ result.op = "request"
    /\ result.endpoint = "user.create_user"
    /\ result.ret = "400"
    /\ result.service = "create_user"
    /\ ~Has(result.data, "password")
    /\ \A i \in DOMAIN users : users[i].username # result.data["username"]
    /\ Cardinality(DOMAIN users) < MaxUsers

\* C26: the answer to a non-administrator's PUT or DELETE on another user's id
\* is the same whether or not a user with that id is stored: 403 with the
\* same body and no UserService call in both cases, never 404.
C26_ForbiddenHidesExistence ==
    [][(/\ result'.op = "request"
        /\ result'.endpoint = "user.manage_single_resource"
        /\ result'.method \in {"PUT", "DELETE"}
        /\ NotAdmin(LoadUser(result'.sid)) = "True"
        /\ result'.id # result'.sid) =>
         LET answer == <<result'.ret, result'.body, result'.service>>
         IN  /\ result'.id \in DOMAIN users => answer = <<"403", <<>>, "none">>
             /\ result'.id \notin DOMAIN users => answer = <<"403", <<>>, "none">>
             /\ users' = users]_vars

\* C26 witness: a logged-in non-administrator sent a DELETE for an id that
\* names no user and got 403
C26_Witness ==
    /\ result.op = "request"
    /\ result.endpoint = "user.manage_single_resource"
    /\ result.method = "DELETE"
    /\ result.sid \in DOMAIN users
    /\ users[result.sid].role # ADMIN
    /\ result.id \notin DOMAIN users
    /\ result.ret = "403"

\* C25: update_user, delete_user, update_equipment, delete_equipment,
\* update_intervention and delete_intervention addressed to an id that names
\* no row return the absent result (None for an update, False for a delete)
\* without raising and leave every table as it was.
C25_AbsentIdIsReported ==
    [][LET absent(table) == result'.id \notin DOMAIN table
           updates == {"update_user", "update_equipment", "update_intervention"}
           deletes == {"delete_user", "delete_equipment", "delete_intervention"}
       IN  (\/ result'.op \in {"update_user", "delete_user"} /\ absent(users)
            \/ result'.op \in {"update_equipment", "delete_equipment"} /\ absent(equipment)
            \/ /\ result'.op \in {"update_intervention", "delete_intervention"}
               /\ absent(interventions)) =>
             /\ result'.op \in updates => result'.ret = "None"
             /\ result'.op \in deletes => result'.ret = "False"
             /\ users' = users
             /\ equipment' = equipment
             /\ interventions' = interventions
             /\ locations' = locations]_vars

\* C25 witness: update_equipment named an id that is not stored, with a
\* status_id in the payload and rows in the other tables
C25_Witness ==
    /\ result.op = "update_equipment"
    /\ result.ret = "None"
    /\ Has(result.data, "status_id")
    /\ result.id \notin DOMAIN equipment
    /\ DOMAIN users # {}
    /\ DOMAIN interventions # {}

\* C27: the status_id of a stored equipment changes only in a
\* create_intervention or update_intervention call (the status rule) or in an
\* update_equipment call whose payload has 'status_id'; delete_intervention,
\* update_equipment without 'status_id', the user calls and the location calls
\* leave every equipment's status_id as it was.
C27_StatusFrame ==
    [][\A e \in DOMAIN equipment \cap DOMAIN equipment' :
          equipment'[e].status_id # equipment[e].status_id =>
              \/ result'.op \in {"create_intervention", "update_intervention"}
              \/ result'.op = "update_equipment" /\ Has(result'.data, "status_id")]_vars

\* C27 witness: an intervention was deleted and an equipment is stored with
\* the status UNDER_REPAIR
C27_Witness ==
    /\ result.op = "delete_intervention"
    /\ result.ret = "ok"
    /\ \E e \in DOMAIN equipment : equipment[e].status_id = STATUS_UNDER_REPAIR

\* C28: a create_intervention or update_intervention call that fails with an
\* error before or at its commit, inside the status rule included, adds and
\* modifies no intervention and changes no equipment status in the store.
C28_FailedCallChangesNothing ==
    [][(/\ result'.op \in {"create_intervention", "update_intervention"}
        /\ result'.ret \in {"AttributeError", "IntegrityError"}) =>
         /\ interventions' = interventions
         /\ equipment' = equipment]_vars

\* C28 witness: an update that carried another equipment_id than the stored
\* one failed inside the status rule, and the stored one is still there
C28_Witness ==
    /\ result.op = "update_intervention"
    /\ result.ret = "AttributeError"
    /\ Has(result.data, "equipment_id")
    /\ result.id \in DOMAIN interventions
    /\ interventions[result.id].equipment_id # result.data["equipment_id"]

\* C29: a session established for a user who has since been deleted no longer
\* authenticates: its id names no user (sessions are only established for
\* stored users, so a session id that names no user is that of a deleted
\* user) and never names one again, and a request with it on a route that is
\* neither static nor public is denied by the gate without running a view.
C29_DeletedUserSessionIsDead ==
    [][/\ \A sid \in sessions : sid \notin DOMAIN users => sid \notin DOMAIN users'
       /\ (/\ result'.op = "request"
           /\ result'.sid # NULL
           /\ result'.sid \notin DOMAIN users
           /\ result'.endpoint \notin StaticEndpoints \cup PublicEndpoints) =>
             /\ result'.gate = "unauthorized"
             /\ result'.ret = "unauthorized"
             /\ ~result'.ran]_vars

\* C30: role checks read the role stored when the request is made: a request
\* with the session of a user who is stored as technician (an administrator
\* demoted since login included) to POST /api/users/create, GET
\* /api/users/items, or PUT/DELETE on another user's id is answered 403 and
\* changes no user.
C30_RoleReadPerRequest ==
    [][(/\ result'.op = "request"
        /\ result'.sid \in DOMAIN users
        /\ users[result'.sid].role = TECHNICIAN
        /\ \/ result'.endpoint \in {"user.create_user", "user.list_items"}
           \/ /\ result'.endpoint = "user.manage_single_resource"
              /\ result'.method \in {"PUT", "DELETE"}
              /\ result'.id # result'.sid) =>
         /\ result'.ret = "403"
         /\ users' = users]_vars

\* C30 witness: the administrator of the seed, stored as technician now that
\* another administrator exists, asked for a user creation and got 403
C30_Witness ==
    /\ result.op = "request"
    /\ result.endpoint = "user.create_user"
    /\ result.sid = 1
    /\ 1 \in DOMAIN users
    /\ users[1].username = "u1"
    /\ users[1].role = TECHNICIAN
    /\ AdminCount(users) >= 1
    /\ result.ret = "403"

====
